---- MODULE Spec2Model ----
(***************************************************************************)
(* A model of the go-firmata client: the reply reader goroutine            *)
(* (src/reply.go), NewClient's handshake loop and the pin-control          *)
(* operations (src/client.go), with the device on the other end of the     *)
(* serial transport sending protocol frames.                               *)
(*                                                                         *)
(* Bytes are naturals in 0..255.  A Go panic in any goroutine ends the     *)
(* process: it is recorded in `panicked` and disables every step.          *)
(***************************************************************************)
EXTENDS Integers, Sequences, FiniteSets, TLC

\* ------------------------------------------------------------------ bounds

\* Frames the device sends over one connection.
MaxFrames == 4
\* Frames the device sends in the less orderly stream: the handshake's three
\* and two more.
MaxStreamFrames == 5
\* Control-surface calls the caller makes after NewClient returned.
MaxOps == 2
\* Times NewClient's select is left through a timer.
MaxTimerFires == 2
\* Pins of the small board and of the large one (a Mega-class board reports
\* more than 64 pins).
SmallPins == 3
BigPins == 65

\* ------------------------------------------------------- protocol constants
\* The command bytes, sysex sub-commands and pin modes are declared in a file
\* of the package that is not among the sources; the values are those of the
\* Firmata protocol the specification describes.

DigitalMessage == 144       \* 0x90
AnalogMessage == 224        \* 0xE0
EnableAnalogInput == 192    \* 0xC0
EnableDigitalInput == 208   \* 0xD0
SetPinMode == 244           \* 0xF4
ReportVersion == 249        \* 0xF9
SystemReset == 255          \* 0xFF
StartSysEx == 240           \* 0xF0
EndSysEx == 247             \* 0xF7

AnalogMappingResponse == 106  \* 0x6A
CapabilityResponse == 108     \* 0x6C
ReportFirmware == 121         \* 0x79

Input == 0
Output == 1
Analog == 2
PWM == 3
Servo == 4

\* The record terminator of a capability response, and "not an analog pin".
NoChannel == 127

\* time.Second * 15 and time.Second * 30 in NewClient's select.
RetryTimeout == 15
AbsoluteTimeout == 30

\* digitalPinState [8]byte
NumPorts == 8

\* --------------------------------------------------------------- bit algebra

RECURSIVE BitAnd(_, _)
BitAnd(a, b) ==
    IF a = 0 \/ b = 0 THEN 0
    ELSE (a % 2) * (b % 2) + 2 * BitAnd(a \div 2, b \div 2)

BitOr(a, b) == a + b - BitAnd(a, b)

\* a & ^b on bytes
BitClear(a, b) == a - BitAnd(a, b)

\* byte(x): a conversion to uint8 keeps the low 8 bits
ToByte(x) == x % 256

\* 1 << pin on a byte
ShiftOne(pin) == ToByte(2 ^ pin)

\* ------------------------------------------------------------------- codec

\* to7Bit: lsb7 = value & 0x7F, msb7 = value >> 7
to7Bit(v) == <<BitAnd(v, 127), v \div 128>>

\* from7Bit: lsb7 | (msb7 << 7), each byte masked to 7 bits
from7Bit(b1, b2) == BitOr(BitAnd(b1, 127), BitAnd(b2, 127) * 128)

\* ------------------------------------------------------------------ device

Boards == {SmallPins, BigPins}

\* What the board with n pins reports for pin p: <<mode, resolution>> pairs.
\* The last two pins are the analog pins; the last one is analog only.
BoardModes(n, p) ==
    IF p = n - 1 THEN <<<<Input, 1>>, <<Analog, 10>>>>
    ELSE IF p = n - 2 THEN <<<<Input, 1>>, <<Output, 1>>, <<Analog, 10>>>>
    ELSE IF p % 2 = 1 THEN <<<<Input, 1>>, <<Output, 1>>, <<PWM, 8>>>>
    ELSE <<<<Input, 1>>, <<Output, 1>>>>

BoardChannel(n, p) ==
    IF p = n - 2 THEN 0 ELSE IF p = n - 1 THEN 1 ELSE NoChannel

RECURSIVE Flatten(_)
Flatten(pairs) ==
    IF pairs = <<>> THEN <<>>
    ELSE <<Head(pairs)[1], Head(pairs)[2]>> \o Flatten(Tail(pairs))

\* The records of pins lo..hi-1, and their mapping bytes, built by halves.
RECURSIVE CapRecords(_, _, _)
CapRecords(n, lo, hi) ==
    IF lo >= hi THEN <<>>
    ELSE IF hi = lo + 1 THEN Flatten(BoardModes(n, lo)) \o <<NoChannel>>
    ELSE LET mid == (lo + hi) \div 2
         IN  CapRecords(n, lo, mid) \o CapRecords(n, mid, hi)

MapBytes(n) == [i \in 1..n |-> BoardChannel(n, i - 1)]

\* The frames a device sends, by kind.
FrameKinds == {"version", "capability", "mapping", "firmware", "digital", "analog"}

Frame(kind, n) ==
    CASE kind = "version" -> <<ReportVersion, 2, 3>>
      [] kind = "capability" ->
            <<StartSysEx, CapabilityResponse>> \o CapRecords(n, 0, n) \o <<EndSysEx>>
      [] kind = "mapping" ->
            <<StartSysEx, AnalogMappingResponse>> \o MapBytes(n) \o <<EndSysEx>>
      [] kind = "firmware" ->
            <<StartSysEx, ReportFirmware, 2, 3, 70, 0, EndSysEx>>
      [] kind = "digital" -> <<DigitalMessage, 127, 1>>
      [] kind = "analog" -> <<AnalogMessage + 1, 5, 2>>
      [] kind = "analogmax" -> <<AnalogMessage, 127, 127>>
      [] kind = "reset" -> <<SystemReset>>
      [] kind = "cut" -> <<DigitalMessage, 127>>
      [] kind = "recapability" ->
            <<StartSysEx, CapabilityResponse, Analog, 10, NoChannel, EndSysEx>>

\* What a less orderly stream holds besides: an analog message with the largest
\* reading, a lone system-reset byte, a digital message cut off before its
\* last byte, and a capability response that reports one pin, analog only.
StreamKinds == {"version", "capability", "mapping", "digital", "analog",
                "analogmax", "reset", "cut", "recapability"}

\* The frames of each board, laid out once.
Frames == [n \in Boards |->
              [kind \in FrameKinds \cup StreamKinds |-> Frame(kind, n)]]

\* ------------------------------------------------------------------- state

VARIABLES
    \* the transport
    inbuf,            \* bytes the device has sent and the reader has not read
    connClosed,       \* conn.Close() was called
    resetsSent,       \* SystemReset commands NewClient has written
    \* the device (history, not program state)
    board,            \* the number of pins of the connected board
    framesSent,       \* frames sent so far
    versionSent,      \* a report-version frame was sent
    capSent,          \* a capability response was sent after it
    mapSent,          \* an analog-mapping response was sent after it
    \* the FirmataClient
    protocolVersion,
    firmwareVersion,
    analogMappingDone,
    capabilityDone,
    digitalPinState,
    analogPinsChannelMap,
    analogChannelPinsMap,
    pinModes,
    \* the reader goroutine of replyReader
    readerPc,         \* "idle" (not started), "read", "send" (blocked on valueChan), "dead"
    readerInit,       \* its local `init`
    pending,          \* the FirmataValue it is handing to valueChan
    doneCloses,       \* close(done) executed so far
    \* NewClient
    connectPc,        \* "open", "select", "returned", "failed"
    connectResult,    \* "pending", "client", "openerror", "timeout"
    waited,           \* seconds NewClient has spent waiting in its select
    timerFires,
    \* the caller and the consumer of Values()
    opsDone,
    lastCall,         \* the last control-surface call and what it did
    lastValue,        \* the last value received from Values()
    received,         \* the values received from Values(), in order
    \* caller threads running DigitalWrite concurrently
    thr,
    \* the process
    panicked          \* "none" or the panic that ended the process

vars == <<inbuf, connClosed, resetsSent, board, framesSent, versionSent, capSent,
          mapSent, protocolVersion, firmwareVersion, analogMappingDone,
          capabilityDone, digitalPinState, analogPinsChannelMap,
          analogChannelPinsMap, pinModes, readerPc, readerInit, pending,
          doneCloses, connectPc, connectResult, waited, timerFires, opsDone,
          lastCall, lastValue, received, thr, panicked>>

deviceVars == <<board, framesSent, versionSent, capSent, mapSent>>
tableVars == <<analogMappingDone, capabilityDone, analogPinsChannelMap,
               analogChannelPinsMap, pinModes, firmwareVersion>>
readerVars == <<readerPc, readerInit, pending, doneCloses, protocolVersion>>
connectVars == <<connectPc, connectResult, waited, timerFires, resetsSent>>
callerVars == <<opsDone, lastCall, digitalPinState>>
consumerVars == <<lastValue, received>>

\* A Go map: a function with a finite domain; a missing key reads as the zero
\* value, also on a nil map.
EmptyMap == [k \in {} |-> 0]
MapGet(m, k, zero) == IF k \in DOMAIN m THEN m[k] ELSE zero

NoCall == [op |-> "none", pin |-> 0, arg |-> 0, result |-> "none",
           wrote |-> <<>>, portsBefore |-> [q \in 0..(NumPorts - 1) |-> 0],
           tableSize |-> 0]
NoValue == [valueType |-> 0, value |-> 0, analogChannelPinsMap |-> EmptyMap]

Threads == {1, 2}
IdleThread == [pc |-> "idle", pin |-> 0, val |-> FALSE, tmp |-> 0,
               data |-> <<0, 0>>, result |-> "none"]

Init ==
    /\ inbuf = <<>>
    /\ connClosed = FALSE
    /\ resetsSent = 0
    /\ board \in Boards
    /\ framesSent = 0
    /\ versionSent = FALSE
    /\ capSent = FALSE
    /\ mapSent = FALSE
    /\ protocolVersion = <<>>
    /\ firmwareVersion = <<>>
    /\ analogMappingDone = FALSE
    /\ capabilityDone = FALSE
    /\ digitalPinState = [q \in 0..(NumPorts - 1) |-> 0]
    /\ analogPinsChannelMap = EmptyMap
    /\ analogChannelPinsMap = EmptyMap
    /\ pinModes = <<>>
    /\ readerPc = "idle"
    /\ readerInit = FALSE
    /\ pending = NoValue
    /\ doneCloses = 0
    /\ connectPc = "open"
    /\ connectResult = "pending"
    /\ waited = 0
    /\ timerFires = 0
    /\ opsDone = 0
    /\ lastCall = NoCall
    /\ lastValue = NoValue
    /\ received = <<>>
    /\ thr = [t \in Threads |-> IdleThread]
    /\ panicked = "none"

\* ------------------------------------------------------------ SysEx decoder

\* A message is the slice buf[from..to] of the reader's buffer, sub-command
\* first.

\* The capability response: per pin, (mode, resolution) pairs ended by 0x7F;
\* the pin index is the position of the record.

\* The decoder walks the payload in (mode, resolution) pairs: at a pair's first
\* byte 0x7F ends the pin's record, any other byte is a mode and the next byte
\* is its resolution.  A walk over a slice is a record with two fields, one
\* for each place the walk can start from (atMode: at a pair's first byte,
\* atRes: at a resolution); each gives the place the walk stops at (out is
\* TRUE for a resolution) and the record ends it found.  ScanByte is the walk
\* over one byte, ScanRecords the walk over buf[lo..hi], split in halves.
ScanByte(buf, i) ==
    [atMode |-> IF buf[i] = NoChannel THEN [out |-> FALSE, ends |-> <<i>>]
                ELSE [out |-> TRUE, ends |-> <<>>],
     atRes  |-> [out |-> FALSE, ends |-> <<>>]]

ScanThen(first, right) ==
    IF first.out
    THEN [out |-> right.atRes.out, ends |-> first.ends \o right.atRes.ends]
    ELSE [out |-> right.atMode.out, ends |-> first.ends \o right.atMode.ends]

ScanJoin(left, right) ==
    [atMode |-> ScanThen(left.atMode, right),
     atRes  |-> ScanThen(left.atRes, right)]

RECURSIVE ScanRecords(_, _, _)
ScanRecords(buf, lo, hi) ==
    IF hi < lo THEN [atMode |-> [out |-> FALSE, ends |-> <<>>],
                     atRes  |-> [out |-> TRUE, ends |-> <<>>]]
    ELSE IF lo = hi THEN ScanByte(buf, lo)
    ELSE CHOOSE walk \in UNION
             {{ScanJoin(left, right) :
                   left \in {ScanRecords(buf, lo, mid)},
                   right \in {ScanRecords(buf, mid + 1, hi)}} :
                 mid \in {(lo + hi) \div 2}} : TRUE

\* The record buf[start..end-1] as a map from mode to resolution; a mode named
\* twice keeps its last resolution.
CapabilityRecord(buf, start, end) ==
    [m \in {buf[i] : i \in {j \in start..(end - 1) : (j - start) % 2 = 0}} |->
        buf[(CHOOSE i \in start..(end - 1) :
                /\ (i - start) % 2 = 0
                /\ buf[i] = m
                /\ \A j \in (i + 1)..(end - 1) :
                      (j - start) % 2 = 0 => buf[j] # m) + 1]]

\* The table: one record per pin in arrival order; bytes after the last 0x7F
\* make no record.
ParseCapability(buf, start, to) ==
    CHOOSE table \in
        {[k \in 1..Len(ends) |->
             CapabilityRecord(buf, IF k = 1 THEN start ELSE ends[k - 1] + 1,
                              ends[k])] :
            ends \in {ScanRecords(buf, start, to).atMode.ends}} : TRUE

\* The analog-mapping response: one byte per pin (pin 0 first), 0x7F for "not
\* an analog pin".  A channel named twice keeps its last pin.
MappedAt(buf, from, to) == {i \in from..to : buf[i] # NoChannel}
ParsePinsChannelMap(buf, from, to) ==
    [p \in {i - from : i \in MappedAt(buf, from, to)} |-> buf[p + from]]
ParseChannelPinsMap(buf, from, to) ==
    [ch \in {buf[i] : i \in MappedAt(buf, from, to)} |->
        (CHOOSE i \in MappedAt(buf, from, to) :
            /\ buf[i] = ch
            /\ \A j \in MappedAt(buf, from, to) : buf[j] = ch => j <= i) - from]

\* parseSysEx: the client's tables after the message buf[from..to].
parseSysEx(buf, from, to) ==
    LET cur == [pinModes |-> pinModes, capabilityDone |-> capabilityDone,
                pinsMap |-> analogPinsChannelMap, chanMap |-> analogChannelPinsMap,
                analogMappingDone |-> analogMappingDone,
                firmwareVersion |-> firmwareVersion]
    IN  IF to < from THEN cur
        ELSE IF buf[from] = CapabilityResponse THEN
            [cur EXCEPT !.pinModes = ParseCapability(buf, from + 1, to),
                        !.capabilityDone = TRUE]
        ELSE IF buf[from] = AnalogMappingResponse THEN
            [cur EXCEPT !.pinsMap = ParsePinsChannelMap(buf, from + 1, to),
                        !.chanMap = ParseChannelPinsMap(buf, from + 1, to),
                        !.analogMappingDone = TRUE]
        ELSE IF buf[from] = ReportFirmware /\ to >= from + 2 THEN
            [cur EXCEPT !.firmwareVersion = <<buf[from + 1], buf[from + 2]>>]
        ELSE cur

\* ------------------------------------------------------------ frame reader

Alive == panicked = "none"

\* The transport gives the reader what the device has sent; with nothing left
\* a read blocks, and fails once the connection is closed.  A failed ReadByte
\* returns the zero byte with its error.
Available(k) == Len(inbuf) >= k \/ connClosed
ByteAt(i) == IF i <= Len(inbuf) THEN inbuf[i] ELSE 0
Drop(k) == SubSeq(inbuf, k + 1, Len(inbuf))

\* ReadSlice(EndSysEx) after the command byte: where the delimiter is.
EndsAt == {i \in 2..Len(inbuf) : inbuf[i] = EndSysEx}
HasEnd == EndsAt # {}
EndIndex == CHOOSE i \in EndsAt : \A j \in EndsAt : i <= j

\* case (cmd&DigitalMessage) > 0 || byte(cmd&AnalogMessage) > 0
IsValueCommand(cmd) ==
    BitAnd(cmd, DigitalMessage) > 0 \/ ToByte(BitAnd(cmd, AnalogMessage)) > 0

\* if c.analogMappingDone && c.capabilityDone
HandshakeCompleteEither(mappingDone, capDone) == mappingDone \/ capDone
HandshakeComplete(mappingDone, capDone) == mappingDone /\ capDone

\* if !init { if cmd != ReportVersion { continue } else { init = true } }
SkipsAlways(init, cmd) == ~init
Skips(init, cmd) == ~init /\ cmd # ReportVersion

\* Whether the bytes one loop iteration reads are there (or the reads fail).
IterationReady ==
    /\ inbuf # <<>>
    /\ LET cmd == inbuf[1] IN
        IF Skips(readerInit, cmd) THEN TRUE
        ELSE IF cmd = ReportVersion THEN Available(3)
        ELSE IF cmd = StartSysEx THEN HasEnd \/ connClosed
        ELSE IF IsValueCommand(cmd) THEN Available(3)
        ELSE TRUE

\* r.ReadByte() failed: panic(err)
ReaderReadError ==
    /\ Alive
    /\ readerPc = "read"
    /\ inbuf = <<>>
    /\ connClosed
    /\ readerPc' = "dead"
    /\ panicked' = "read error"
    /\ UNCHANGED <<inbuf, connClosed, deviceVars, tableVars, readerInit, pending,
                   doneCloses, protocolVersion, connectVars, callerVars,
                   consumerVars, thr>>

\* One iteration of the reader's loop, up to the send on valueChan.
ReaderStep ==
    /\ Alive
    /\ readerPc = "read"
    /\ IterationReady
    /\ LET cmd == inbuf[1] IN
        IF Skips(readerInit, cmd) THEN
            \* not synchronised yet: continue
            /\ inbuf' = Tail(inbuf)
            /\ UNCHANGED <<tableVars, readerVars, panicked>>
        ELSE IF cmd = ReportVersion THEN
            /\ readerInit' = TRUE
            /\ protocolVersion' = <<ByteAt(2), ByteAt(3)>>
            /\ inbuf' = Drop(3)
            /\ UNCHANGED <<tableVars, readerPc, pending, doneCloses, panicked>>
        ELSE IF cmd = StartSysEx THEN
            IF HasEnd THEN
                \* sysExData[0 : len(sysExData)-1] is inbuf[2..EndIndex-1]
                \E new \in {parseSysEx(inbuf, 2, EndIndex - 1)} :
                \E complete \in {HandshakeComplete(new.analogMappingDone,
                                                   new.capabilityDone)} :
                    /\ inbuf' = Drop(EndIndex)
                    /\ pinModes' = new.pinModes
                    /\ capabilityDone' = new.capabilityDone
                    /\ analogPinsChannelMap' = new.pinsMap
                    /\ analogChannelPinsMap' = new.chanMap
                    /\ analogMappingDone' = new.analogMappingDone
                    /\ firmwareVersion' = new.firmwareVersion
                    \* close(done); closing a closed channel panics
                    /\ doneCloses' = IF complete THEN doneCloses + 1 ELSE doneCloses
                    /\ panicked' = IF complete /\ doneCloses >= 1
                                   THEN "close of closed channel" ELSE panicked
                    /\ readerPc' = IF complete /\ doneCloses >= 1 THEN "dead" ELSE readerPc
                    /\ UNCHANGED <<readerInit, pending, protocolVersion>>
            ELSE
                \* ReadSlice failed before the delimiter: the bytes are dropped
                /\ inbuf' = <<>>
                /\ UNCHANGED <<tableVars, readerVars, panicked>>
        ELSE IF IsValueCommand(cmd) THEN
            \* FirmataValue{cmd, int(from7Bit(b1, b2)), c.analogChannelPinsMap}
            /\ pending' = [valueType |-> cmd, value |-> from7Bit(ByteAt(2), ByteAt(3)),
                           analogChannelPinsMap |-> analogChannelPinsMap]
            /\ readerPc' = "send"
            /\ inbuf' = Drop(3)
            /\ UNCHANGED <<tableVars, readerInit, doneCloses, protocolVersion, panicked>>
        ELSE
            /\ inbuf' = Tail(inbuf)
            /\ UNCHANGED <<tableVars, readerVars, panicked>>
    /\ UNCHANGED <<connClosed, deviceVars, connectVars, callerVars, consumerVars, thr>>

\* A consumer that keeps the newest value only.
ConsumeValueKeepsNewest ==
    /\ Alive
    /\ readerPc = "send"
    /\ connectPc = "returned"
    /\ lastValue' = pending
    /\ received' = <<pending>>
    /\ readerPc' = "read"
    /\ UNCHANGED <<inbuf, connClosed, deviceVars, tableVars, readerInit, pending,
                   doneCloses, protocolVersion, connectVars, callerVars, thr,
                   panicked>>

\* The consumer receives from Values(): the reader's send completes.  Only the
\* caller of NewClient holds the client, so there is no consumer before it
\* returns.
ConsumeValue ==
    /\ Alive
    /\ readerPc = "send"
    /\ connectPc = "returned"
    /\ lastValue' = pending
    /\ received' = Append(received, pending)
    /\ readerPc' = "read"
    /\ UNCHANGED <<inbuf, connClosed, deviceVars, tableVars, readerInit, pending,
                   doneCloses, protocolVersion, connectVars, callerVars, thr,
                   panicked>>

\* ------------------------------------------------------------------ device

\* The device sends a frame.  It sends the next one only when the reader has
\* nothing it can go on with: what the reader does depends on the order of the
\* bytes alone.
Send(kind, limit) ==
    /\ Alive
    /\ connectPc \in {"select", "returned"}
    /\ ~connClosed
    /\ framesSent < limit
    /\ ~(readerPc = "read" /\ IterationReady)
    /\ inbuf' = inbuf \o Frames[board][kind]
    /\ framesSent' = framesSent + 1
    /\ versionSent' = (versionSent \/ kind = "version")
    /\ capSent' = (capSent \/ (versionSent /\ kind = "capability"))
    /\ mapSent' = (mapSent \/ (versionSent /\ kind = "mapping"))
    /\ UNCHANGED <<board, connClosed, tableVars, readerVars, connectVars,
                   callerVars, consumerVars, thr, panicked>>

DeviceSend(kind) == Send(kind, MaxFrames)
StreamSend(kind) == Send(kind, MaxStreamFrames)

\* --------------------------------------------------------------- NewClient

\* serial.OpenPort failed: return nil, err
ConnectOpenFail ==
    /\ connectPc = "open"
    /\ connectPc' = "failed"
    /\ connectResult' = "openerror"
    /\ UNCHANGED <<inbuf, connClosed, deviceVars, tableVars, readerVars, waited,
                   timerFires, resetsSent, callerVars, consumerVars, thr, panicked>>

\* The port is open: the client is built, replyReader starts the reader and
\* SystemReset is written.
ConnectStart ==
    /\ connectPc = "open"
    /\ connectPc' = "select"
    /\ readerPc' = "read"
    /\ resetsSent' = resetsSent + 1
    /\ UNCHANGED <<inbuf, connClosed, deviceVars, tableVars, readerInit, pending,
                   doneCloses, protocolVersion, connectResult, waited, timerFires,
                   callerVars, consumerVars, thr, panicked>>

\* case <-inited: return client, err.  What NewClient counted while it waited
\* ends with the call.
ConnectInited ==
    /\ Alive
    /\ connectPc = "select"
    /\ doneCloses >= 1
    /\ connectPc' = "returned"
    /\ connectResult' = "client"
    /\ waited' = 0
    /\ timerFires' = 0
    /\ resetsSent' = 0
    /\ UNCHANGED <<inbuf, connClosed, deviceVars, tableVars, readerVars,
                   callerVars, consumerVars, thr, panicked>>

\* Each evaluation of the select calls time.After anew for both timer cases,
\* so both timers start when the select is entered; the one that fires first
\* ends the select.
SelectTimers == {[case |-> "retry", after |-> RetryTimeout],
                 [case |-> "abandon", after |-> AbsoluteTimeout]}
FirstTimer == CHOOSE t \in SelectTimers : \A u \in SelectTimers : t.after <= u.after

\* No signal on `inited` before a timer fires.
ConnectTimer ==
    /\ Alive
    /\ connectPc = "select"
    /\ doneCloses = 0
    /\ timerFires < MaxTimerFires
    /\ timerFires' = timerFires + 1
    /\ waited' = waited + FirstTimer.after
    /\ IF FirstTimer.case = "retry" THEN
            \* conn.Write([]byte{byte(SystemReset)})
            /\ resetsSent' = resetsSent + 1
            /\ UNCHANGED connClosed
       ELSE
            \* conn.Close(); break (which leaves the select, not the loop)
            /\ connClosed' = TRUE
            /\ UNCHANGED resetsSent
    /\ UNCHANGED <<inbuf, deviceVars, tableVars, readerVars, connectPc,
                   connectResult, callerVars, consumerVars, thr, panicked>>

\* --------------------------------------------------------- control surface

\* What a call did: its result ("ok", "validation" for the fmt.Errorf returns,
\* "transport" for a failed write, "panic"), the bytes it wrote and the port
\* bytes it leaves.
Returned(result, wrote, ports) == [result |-> result, wrote |-> wrote, ports |-> ports]

\* sendCommand: conn.Write(cmd), whose error is returned as it is.  A write on
\* a closed connection fails.
sendCommand(cmd, ports) ==
    IF connClosed THEN Returned("transport", <<>>, ports)
    ELSE Returned("ok", cmd, ports)

\* c.pinModes[pin] is an index into a slice: out of range, it panics.
InTable(pin) == pin < Len(pinModes)
\* c.pinModes[pin][mode] != nil
HasMode(pin, mode) == mode \in DOMAIN pinModes[pin + 1]

Bit(val) == IF val THEN 1 ELSE 0

SetPinModeSendsFirst(pin, mode) ==
    IF ~InTable(pin) THEN Returned("panic", <<>>, digitalPinState)
    ELSE IF ~HasMode(pin, mode)
        THEN Returned("validation", <<SetPinMode, BitAnd(pin, 127), ToByte(mode)>>,
                      digitalPinState)
    ELSE sendCommand(<<SetPinMode, BitAnd(pin, 127), ToByte(mode)>>, digitalPinState)

SetPinModeCall(pin, mode) ==
    IF ~InTable(pin) THEN Returned("panic", <<>>, digitalPinState)
    ELSE IF ~HasMode(pin, mode) THEN Returned("validation", <<>>, digitalPinState)
    ELSE sendCommand(<<SetPinMode, BitAnd(pin, 127), ToByte(mode)>>, digitalPinState)

\* An EnableDigitalInput that also records the pin's bit in the port byte.
EnableDigitalInputSetsBit(pin, val) ==
    IF pin > Len(pinModes) THEN Returned("validation", <<>>, digitalPinState)
    ELSE LET port == BitAnd(pin \div 8, 127)
         IN  sendCommand(<<BitOr(EnableDigitalInput, ToByte(port)), Bit(val)>>,
                         [digitalPinState EXCEPT
                             ![port % NumPorts] = BitOr(@, ShiftOne(pin % 8))])

\* pin is a uint: pin < 0 never holds
EnableDigitalInputCall(pin, val) ==
    IF pin > Len(pinModes) THEN Returned("validation", <<>>, digitalPinState)
    ELSE LET port == BitAnd(pin \div 8, 127)
         IN  sendCommand(<<BitOr(EnableDigitalInput, ToByte(port)), Bit(val)>>,
                         digitalPinState)

\* The port byte after the bit of `pin` (already reduced mod 8) is written.
WriteBit(portData, pin, val) ==
    IF val THEN BitOr(portData, ShiftOne(pin)) ELSE BitClear(portData, ShiftOne(pin))

\* A DigitalWrite that sends the mask of the written pin, not the port byte.
DigitalWriteSendsPin(pin, val) ==
    IF pin > ToByte(Len(pinModes)) /\ ~InTable(pin)
        THEN Returned("panic", <<>>, digitalPinState)
    ELSE IF pin > ToByte(Len(pinModes)) /\ HasMode(pin, Output)
        THEN Returned("validation", <<>>, digitalPinState)
    ELSE LET port == BitAnd(pin \div 8, 127) IN
        IF port >= NumPorts THEN Returned("panic", <<>>, digitalPinState)
        ELSE LET portData == WriteBit(digitalPinState[port], pin % 8, val)
                 data == to7Bit(WriteBit(0, pin % 8, val))
             IN  sendCommand(<<BitOr(DigitalMessage, ToByte(port)), data[1], data[2]>>,
                             [digitalPinState EXCEPT ![port] = portData])

\* pin is a uint8, and the bound it is compared with is uint8(len(c.pinModes)).
\* In  a || b && c  the index c.pinModes[pin] is evaluated when b holds.
DigitalWriteCall(pin, val) ==
    IF pin > ToByte(Len(pinModes)) /\ ~InTable(pin)
        THEN Returned("panic", <<>>, digitalPinState)
    ELSE IF pin > ToByte(Len(pinModes)) /\ HasMode(pin, Output)
        THEN Returned("validation", <<>>, digitalPinState)
    ELSE LET port == BitAnd(pin \div 8, 127) IN
        \* &c.digitalPinState[port] indexes an array of 8 bytes
        IF port >= NumPorts THEN Returned("panic", <<>>, digitalPinState)
        ELSE LET portData == WriteBit(digitalPinState[port], pin % 8, val)
                 data == to7Bit(portData)
             IN  sendCommand(<<BitOr(DigitalMessage, ToByte(port)), data[1], data[2]>>,
                             [digitalPinState EXCEPT ![port] = portData])

EnableAnalogInputCall(pin, val) ==
    IF pin > Len(pinModes) /\ ~InTable(pin)
        THEN Returned("panic", <<>>, digitalPinState)
    ELSE IF pin > Len(pinModes) /\ HasMode(pin, Analog)
        THEN Returned("validation", <<>>, digitalPinState)
    ELSE LET ch == ToByte(MapGet(analogPinsChannelMap, pin, 0))
         IN  sendCommand(<<BitOr(EnableAnalogInput, ch), Bit(val)>>, digitalPinState)

AnalogWriteCall(pin, pinData) ==
    IF pin > Len(pinModes) /\ ~InTable(pin)
        THEN Returned("panic", <<>>, digitalPinState)
    ELSE IF pin > Len(pinModes) /\ HasMode(pin, Analog)
        THEN Returned("validation", <<>>, digitalPinState)
    ELSE LET data == to7Bit(pinData)
         IN  sendCommand(<<BitOr(AnalogMessage, ToByte(pin)), data[1], data[2]>>,
                         digitalPinState)

\* The pins, modes and values the caller tries: the first and the last pin of
\* port 0, the first pin whose number does not fit a nibble, the last pin of
\* the table, the first index past it and the next.
CallPins == {0, 7, 16, board - 1, board, board + 1}
CallModes == {Output, Analog}
CallData == {200}

CallerReady ==
    /\ Alive
    /\ connectPc = "returned"
    /\ opsDone < MaxOps
    /\ \A t \in Threads : thr[t].pc = "idle"

Call(op, pin, arg, outcome) ==
    /\ CallerReady
    /\ \E o \in {outcome} :
        /\ lastCall' = [op |-> op, pin |-> pin, arg |-> arg, result |-> o.result,
                        wrote |-> o.wrote, portsBefore |-> digitalPinState,
                        tableSize |-> Len(pinModes)]
        /\ digitalPinState' = o.ports
        /\ panicked' = IF o.result = "panic" THEN "index out of range" ELSE panicked
    /\ opsDone' = opsDone + 1
    /\ UNCHANGED <<inbuf, connClosed, deviceVars, tableVars, readerVars,
                   connectVars, consumerVars, thr>>

CallSetPinMode(pin, mode) == Call("SetPinMode", pin, mode, SetPinModeCall(pin, mode))
CallEnableDigitalInput(pin, val) ==
    Call("EnableDigitalInput", pin, Bit(val), EnableDigitalInputCall(pin, val))
CallDigitalWrite(pin, val) ==
    Call("DigitalWrite", pin, Bit(val), DigitalWriteCall(pin, val))
CallEnableAnalogInput(pin, val) ==
    Call("EnableAnalogInput", pin, Bit(val), EnableAnalogInputCall(pin, val))
CallAnalogWrite(pin, pinData) ==
    Call("AnalogWrite", pin, pinData, AnalogWriteCall(pin, pinData))

\* The outcome of a call whose conn.Write returns an error: sendCommand is
\* the call's last statement, so all it did before stays done, nothing is
\* written and the error is what the call returns.
WriteFailsRolledBack(outcome) ==
    [outcome EXCEPT !.result = "transport", !.wrote = <<>>, !.ports = digitalPinState]
WriteFails(outcome) ==
    [outcome EXCEPT !.result = "transport", !.wrote = <<>>]

\* A DigitalWrite during which the transport, still open, fails the write.
CallDigitalWriteFailed(pin, val) ==
    /\ ~connClosed
    /\ DigitalWriteCall(pin, val).result = "ok"
    /\ Call("DigitalWrite", pin, Bit(val), WriteFails(DigitalWriteCall(pin, val)))

\* Close: c.conn.Close()
CallClose ==
    /\ CallerReady
    /\ ~connClosed
    /\ connClosed' = TRUE
    /\ lastCall' = [op |-> "Close", pin |-> 0, arg |-> 0, result |-> "ok",
                    wrote |-> <<>>, portsBefore |-> digitalPinState,
                    tableSize |-> Len(pinModes)]
    /\ opsDone' = opsDone + 1
    /\ UNCHANGED <<inbuf, deviceVars, tableVars, readerVars, connectVars,
                   digitalPinState, consumerVars, thr, panicked>>

\* ------------------------------------------- concurrent DigitalWrite calls

\* DigitalWrite has no lock: its statements run interleaved with those of a
\* DigitalWrite on another caller thread.  Each thread makes one call.
ThreadPins == {0, 1}

\* the call is made
ThreadCall(t, pin, val) ==
    /\ Alive
    /\ connectPc = "returned"
    /\ opsDone = 0
    /\ thr[t].pc = "idle"
    /\ thr' = [thr EXCEPT ![t] = [@ EXCEPT !.pc = "check", !.pin = pin, !.val = val]]
    /\ UNCHANGED <<inbuf, connClosed, deviceVars, tableVars, readerVars,
                   connectVars, callerVars, consumerVars, panicked>>

\* the range check, and portData := &c.digitalPinState[port]
ThreadCheck(t) ==
    /\ Alive
    /\ thr[t].pc = "check"
    /\ LET pin == thr[t].pin
           port == BitAnd(pin \div 8, 127)
       IN  IF (pin > ToByte(Len(pinModes)) /\ ~InTable(pin)) \/ port >= NumPorts THEN
               /\ panicked' = "index out of range"
               /\ thr' = [thr EXCEPT ![t] = [@ EXCEPT !.pc = "done", !.result = "panic"]]
           ELSE IF pin > ToByte(Len(pinModes)) /\ HasMode(pin, Output) THEN
               /\ thr' = [thr EXCEPT ![t] = [@ EXCEPT !.pc = "done",
                                                      !.result = "validation"]]
               /\ UNCHANGED panicked
           ELSE
               /\ thr' = [thr EXCEPT ![t] = [@ EXCEPT !.pc = "load"]]
               /\ UNCHANGED panicked
    /\ UNCHANGED <<inbuf, connClosed, deviceVars, tableVars, readerVars,
                   connectVars, callerVars, consumerVars>>

\* the read of *portData on the right of the assignment
ThreadLoad(t) ==
    /\ Alive
    /\ thr[t].pc = "load"
    /\ thr' = [thr EXCEPT ![t] =
                  [@ EXCEPT !.pc = "store",
                            !.tmp = digitalPinState[BitAnd(thr[t].pin \div 8, 127)]]]
    /\ UNCHANGED <<inbuf, connClosed, deviceVars, tableVars, readerVars,
                   connectVars, callerVars, consumerVars, panicked>>

\* the write of *portData
ThreadStore(t) ==
    /\ Alive
    /\ thr[t].pc = "store"
    /\ digitalPinState' =
          [digitalPinState EXCEPT ![BitAnd(thr[t].pin \div 8, 127)] =
              WriteBit(thr[t].tmp, thr[t].pin % 8, thr[t].val)]
    /\ thr' = [thr EXCEPT ![t] = [@ EXCEPT !.pc = "encode"]]
    /\ UNCHANGED <<inbuf, connClosed, deviceVars, tableVars, readerVars,
                   connectVars, opsDone, lastCall, consumerVars, panicked>>

\* data := to7Bit(*(portData))
ThreadEncode(t) ==
    /\ Alive
    /\ thr[t].pc = "encode"
    /\ thr' = [thr EXCEPT ![t] =
                  [@ EXCEPT !.pc = "send",
                            !.data = to7Bit(digitalPinState[BitAnd(thr[t].pin \div 8, 127)])]]
    /\ UNCHANGED <<inbuf, connClosed, deviceVars, tableVars, readerVars,
                   connectVars, callerVars, consumerVars, panicked>>

\* return c.sendCommand(cmd)
ThreadSend(t) ==
    /\ Alive
    /\ thr[t].pc = "send"
    /\ \E o \in {sendCommand(<<BitOr(DigitalMessage,
                                     ToByte(BitAnd(thr[t].pin \div 8, 127))),
                               thr[t].data[1], thr[t].data[2]>>, digitalPinState)} :
        /\ thr' = [thr EXCEPT ![t] = [@ EXCEPT !.pc = "done", !.result = o.result]]
        /\ lastCall' = [op |-> "DigitalWrite", pin |-> thr[t].pin,
                        arg |-> Bit(thr[t].val), result |-> o.result,
                        wrote |-> o.wrote, portsBefore |-> digitalPinState,
                        tableSize |-> Len(pinModes)]
    /\ UNCHANGED <<inbuf, connClosed, deviceVars, tableVars, readerVars,
                   connectVars, opsDone, digitalPinState, consumerVars, panicked>>

\* ------------------------------------------------------------ specification

Next ==
    \/ ReaderReadError
    \/ ReaderStep
    \/ ConsumeValue
    \/ \E kind \in FrameKinds : DeviceSend(kind)
    \/ ConnectOpenFail
    \/ ConnectStart
    \/ ConnectInited
    \/ ConnectTimer
    \/ \E pin \in CallPins, mode \in CallModes : CallSetPinMode(pin, mode)
    \/ \E pin \in CallPins, val \in BOOLEAN : CallEnableDigitalInput(pin, val)
    \/ \E pin \in CallPins, val \in BOOLEAN : CallDigitalWrite(pin, val)
    \/ \E pin \in CallPins, val \in BOOLEAN : CallDigitalWriteFailed(pin, val)
    \/ \E pin \in CallPins, val \in BOOLEAN : CallEnableAnalogInput(pin, val)
    \/ \E pin \in CallPins, pinData \in CallData : CallAnalogWrite(pin, pinData)
    \/ CallClose

\* One caller thread: every control-surface call runs to its end before the next.
Spec == Init /\ [][Next]_vars

\* The Go scheduler runs a goroutine that can run: the reader takes its next
\* step when the bytes are there, and NewClient receives from a closed channel.
FairSpec == Spec /\ WF_vars(ReaderStep) /\ WF_vars(ConnectInited)

\* Two caller threads, each in a DigitalWrite.
NextConcurrent ==
    \/ ReaderStep
    \/ ConsumeValue
    \/ \E kind \in FrameKinds : DeviceSend(kind)
    \/ ConnectOpenFail
    \/ ConnectStart
    \/ ConnectInited
    \/ ConnectTimer
    \/ \E t \in Threads, pin \in ThreadPins, val \in BOOLEAN : ThreadCall(t, pin, val)
    \/ \E t \in Threads : ThreadCheck(t)
    \/ \E t \in Threads : ThreadLoad(t)
    \/ \E t \in Threads : ThreadStore(t)
    \/ \E t \in Threads : ThreadEncode(t)
    \/ \E t \in Threads : ThreadSend(t)

SpecConcurrent == Init /\ [][NextConcurrent]_vars

\* The reader, the device with a less orderly stream, the consumer and Close.
NextStream ==
    \/ ReaderReadError
    \/ ReaderStep
    \/ ConsumeValue
    \/ \E kind \in StreamKinds : StreamSend(kind)
    \/ ConnectOpenFail
    \/ ConnectStart
    \/ ConnectInited
    \/ ConnectTimer
    \/ CallClose

SpecStream == Init /\ [][NextStream]_vars

\* ------------------------------------------------------------------ claims

\* C1: the reader triggers the handshake-complete signal at most once over the
\* connection: close(done) is executed at most once, whatever sysex messages
\* follow the two responses.
C1_SignalAtMostOnce == doneCloses <= 1

\* C2: the handshake-complete signal has fired only if both capability-received
\* and analog-mapping-received are set, and NewClient has returned a client
\* only if the signal has fired.
C2_SignalOnlyWhenBothDone ==
    /\ doneCloses >= 1 => capabilityDone /\ analogMappingDone
    /\ connectResult = "client" => doneCloses >= 1

\* NewClient has returned the client (and more than once only one of the two
\* responses had been processed on the way, in each order, in other states).
C2_Witness == connectResult = "client" /\ doneCloses = 1

\* C3: once the device has sent a report-version frame and, after it, a
\* capability response and an analog-mapping response, the handshake-complete
\* signal eventually fires, whatever digital or analog messages the stream
\* holds and with no consumer of the value stream.
C3_HandshakeIgnoresValueStream ==
    (versionSent /\ capSent /\ mapSent) ~> (doneCloses >= 1)

\* C4: when NewClient has waited the absolute timeout without the signal, it
\* has closed the transport and returned the timeout error.
C4_AbandonsAfterAbsoluteTimeout ==
    waited >= AbsoluteTimeout => connClosed /\ connectResult = "timeout"

\* C5: SetPinMode(p, m) succeeds exactly when m is in pin p's record and
\* returns a validation error otherwise, also for a pin with no record.
C5_SetPinModeValidates ==
    (lastCall.op = "SetPinMode" /\ lastCall.result # "transport") =>
        lastCall.result =
            IF lastCall.pin < Len(pinModes)
               /\ lastCall.arg \in DOMAIN pinModes[lastCall.pin + 1]
            THEN "ok" ELSE "validation"

\* C6: a control-surface call that returned a validation error wrote no byte
\* to the transport and left the digital port bytes as they were.
C6_ValidationErrorHasNoEffect ==
    lastCall.result = "validation" =>
        lastCall.wrote = <<>> /\ digitalPinState = lastCall.portsBefore

\* A call failed validation while a port byte was not zero.
C6_Witness ==
    /\ lastCall.result = "validation"
    /\ lastCall.op = "SetPinMode"
    /\ digitalPinState[0] # 0

\* C7: DigitalWrite, AnalogWrite, EnableDigitalInput and EnableAnalogInput
\* return a validation error, and send nothing, for every pin index at or past
\* the number of pins in the capability table.
C7_OutOfRangePinRejected ==
    (/\ lastCall.op \in {"DigitalWrite", "AnalogWrite", "EnableDigitalInput",
                         "EnableAnalogInput"}
     /\ lastCall.pin >= lastCall.tableSize) =>
        lastCall.result = "validation" /\ lastCall.wrote = <<>>

\* C8: EnableAnalogInput on a pin of the table that has no analog channel
\* returns a validation error and sends nothing.
C8_NonAnalogPinRejected ==
    (/\ lastCall.op = "EnableAnalogInput"
     /\ lastCall.pin < lastCall.tableSize
     /\ lastCall.pin \notin DOMAIN analogPinsChannelMap) =>
        lastCall.result = "validation" /\ lastCall.wrote = <<>>

BitOf(x, k) == (x \div (2 ^ k)) % 2

\* C9: DigitalWrite(p, v) on a pin of the table sets bit (p mod 8) of port
\* (p div 8) to v and leaves every other bit of every port as it was.
C9_DigitalWriteSetsOneBit ==
    (lastCall.op = "DigitalWrite" /\ lastCall.pin < lastCall.tableSize) =>
        /\ lastCall.pin \div 8 \in DOMAIN digitalPinState
        /\ \A q \in DOMAIN digitalPinState : \A k \in 0..7 :
              BitOf(digitalPinState[q], k) =
                  IF q = lastCall.pin \div 8 /\ k = lastCall.pin % 8
                  THEN lastCall.arg
                  ELSE BitOf(lastCall.portsBefore[q], k)

\* C10: when two concurrent DigitalWrite calls on different pins of one port
\* have both returned, the port byte holds both requested values, and so does
\* the last digital message sent.
C10_NoLostUpdate ==
    (/\ \A t \in Threads : thr[t].pc = "done" /\ thr[t].result = "ok"
     /\ thr[1].pin # thr[2].pin
     /\ thr[1].pin \div 8 = thr[2].pin \div 8) =>
        \A t \in Threads :
            /\ BitOf(digitalPinState[thr[t].pin \div 8], thr[t].pin % 8) = Bit(thr[t].val)
            /\ BitOf(from7Bit(lastCall.wrote[2], lastCall.wrote[3]), thr[t].pin % 8)
                   = Bit(thr[t].val)

\* ------------------------------------------------------- the frame reader

\* The family of a command byte: its high nibble.
HighNibble(b) == BitAnd(b, 240)

\* A step in which the reader takes bytes from the transport.
ReaderTakes == readerPc = "read" /\ Len(inbuf') < Len(inbuf)

\* C11: once synchronised, the reader emits a value only for a command byte of
\* the digital-message or the analog-message family; for any other command
\* byte that is neither report-version nor start-sysex it takes that one byte
\* and emits nothing.
C11_OnlyValueFamiliesEmit ==
    [][(readerInit /\ ReaderTakes /\ inbuf[1] \notin {ReportVersion, StartSysEx}
            /\ HighNibble(inbuf[1]) \notin {DigitalMessage, AnalogMessage})
        => (inbuf' = Tail(inbuf) /\ readerPc' = "read" /\ pending' = pending)]_vars

\* C12: until the first report-version byte the reader discards every byte,
\* one at a time: no value is emitted, no sysex message decoded, no handshake
\* flag set, no signal fired.  On report-version it takes exactly the two
\* bytes that follow as the protocol version and is synchronised, and it
\* stays so.
C12_DiscardsUntilReportVersion ==
    [][/\ ~readerInit' =>
            /\ pending' = NoValue /\ lastValue' = NoValue /\ readerPc' # "send"
            /\ ~capabilityDone' /\ ~analogMappingDone' /\ pinModes' = <<>>
            /\ analogPinsChannelMap' = EmptyMap /\ doneCloses' = 0
       /\ (~readerInit /\ ReaderTakes /\ inbuf[1] # ReportVersion) =>
            (inbuf' = Tail(inbuf) /\ ~readerInit')
       /\ (~readerInit /\ ReaderTakes /\ inbuf[1] = ReportVersion
                /\ Len(inbuf) >= 3) =>
            /\ readerInit'
            /\ protocolVersion' = <<inbuf[2], inbuf[3]>>
            /\ inbuf' = SubSeq(inbuf, 4, Len(inbuf))
       /\ readerInit => readerInit']_vars

\* The reader has discarded the first bytes of a capability response that
\* came before any report-version frame, and goes on discarding.
C12_Witness ==
    /\ ~readerInit /\ readerPc = "read" /\ framesSent = 1
    /\ Len(inbuf) > 2 /\ inbuf[1] = NoChannel

\* C13: a loop iteration of the reader in which a read fails (the connection
\* is closed and the bytes the iteration reads are not all there) emits no
\* value and changes nothing of the client.
C13_ReadFailureStopsReader ==
    [][(connClosed /\ ReaderTakes /\ Len(inbuf) < 3
            /\ (inbuf[1] = ReportVersion \/ IsValueCommand(inbuf[1])))
        => /\ readerPc' # "send"
           /\ pending' = pending
           /\ protocolVersion' = protocolVersion
           /\ UNCHANGED tableVars]_vars

\* C14: once the handshake-complete signal has fired, no step changes the pin
\* capability table or either direction of the analog channel mapping.
C14_TablesFixedAfterHandshake ==
    [][doneCloses >= 1 =>
        UNCHANGED <<pinModes, analogPinsChannelMap, analogChannelPinsMap>>]_vars

\* ------------------------------------------------------------ FirmataValue

\* IsAnalog: (v.valueType & 0xF0) == AnalogMessage
IsAnalog(v) == HighNibble(v.valueType) = AnalogMessage

\* AnalogValue: the pin is looked up under the channel, the command byte
\* without the bits of AnalogMessage; err is TRUE for a non-nil error.
AnalogValueByCommand(v) ==
    IF ~IsAnalog(v) THEN [pin |-> 0, val |-> 0, err |-> TRUE]
    ELSE [pin |-> MapGet(v.analogChannelPinsMap, v.valueType, 0),
          val |-> v.value, err |-> FALSE]

AnalogValue(v) ==
    IF ~IsAnalog(v) THEN [pin |-> 0, val |-> 0, err |-> TRUE]
    ELSE [pin |-> MapGet(v.analogChannelPinsMap,
                         ToByte(BitClear(v.valueType, AnalogMessage)), 0),
          val |-> v.value, err |-> FALSE]

\* DigitalValue: the port and, for each of its 8 pins, whether its bit is set.
DigitalValue(v) ==
    IF IsAnalog(v) THEN [port |-> 0, val |-> EmptyMap, err |-> TRUE]
    ELSE LET port == ToByte(BitClear(v.valueType, DigitalMessage))
         IN  [port |-> port,
              val |-> [k \in {ToByte(port * 8 + i) : i \in 0..7} |->
                          BitAnd(v.value, 2 ^ (k % 8)) > 0],
              err |-> FALSE]

\* C15: when the synchronised reader takes an analog message for a channel c
\* that the mapping gives a pin, it emits one value for which IsAnalog holds,
\* AnalogValue returns that pin with the reading lsb | (msb << 7), and
\* DigitalValue returns an error.
C15_AnalogMessageDecodesToPin ==
    [][(readerInit /\ ReaderTakes /\ Len(inbuf) >= 3
            /\ HighNibble(inbuf[1]) = AnalogMessage
            /\ (inbuf[1] - AnalogMessage) \in DOMAIN analogChannelPinsMap)
        => /\ readerPc' = "send"
           /\ inbuf' = SubSeq(inbuf, 4, Len(inbuf))
           /\ IsAnalog(pending')
           /\ AnalogValue(pending') =
                  [pin |-> analogChannelPinsMap[inbuf[1] - AnalogMessage],
                   val |-> BitOr(inbuf[2], inbuf[3] * 128), err |-> FALSE]
           /\ DigitalValue(pending').err]_vars

\* The consumer has the value of the analog message E1 05 02: channel 1, the
\* board's last pin, reading 5 | (2 << 7).
C15_Witness ==
    /\ lastValue.valueType = AnalogMessage + 1
    /\ AnalogValue(lastValue) = [pin |-> board - 1, val |-> 261, err |-> FALSE]

\* ------------------------------------------------------- messages written

\* The command family of each operation that writes a message with a port or
\* a channel in its first byte, and the length of its message.
FamilyOf ==
    [AnalogWrite |-> AnalogMessage, DigitalWrite |-> DigitalMessage,
     EnableDigitalInput |-> EnableDigitalInput,
     EnableAnalogInput |-> EnableAnalogInput]
LengthOf ==
    [AnalogWrite |-> 3, DigitalWrite |-> 3, SetPinMode |-> 3,
     EnableDigitalInput |-> 2, EnableAnalogInput |-> 2]

\* C16: the message a successful control operation wrote is a well-formed
\* frame of the operation's length: its first byte is of the operation's
\* command family (the set-pin-mode command itself for SetPinMode), only the
\* low nibble carrying the port or channel, and every later byte is below 128.
C16_WellFormedFrames ==
    (lastCall.op \in DOMAIN LengthOf /\ lastCall.result = "ok") =>
        /\ Len(lastCall.wrote) = LengthOf[lastCall.op]
        /\ IF lastCall.op = "SetPinMode" THEN lastCall.wrote[1] = SetPinMode
           ELSE HighNibble(lastCall.wrote[1]) = FamilyOf[lastCall.op]
        /\ \A i \in 2..Len(lastCall.wrote) : lastCall.wrote[i] < 128

\* C17: the message a successful DigitalWrite wrote is the one digital message
\* of its pin's port, with the port byte as it is after the call in the two
\* data bytes (lsb = state & 0x7F, msb = state >> 7).
C17_DigitalWriteSendsPortByte ==
    (lastCall.op = "DigitalWrite" /\ lastCall.result = "ok") =>
        /\ lastCall.pin \div 8 \in DOMAIN digitalPinState
        /\ lastCall.wrote = <<DigitalMessage + lastCall.pin \div 8,
                              digitalPinState[lastCall.pin \div 8] % 128,
                              digitalPinState[lastCall.pin \div 8] \div 128>>

\* Pin 7 was set after pin 0: the message carries both bits, one in each
\* data byte.
C17_Witness ==
    /\ lastCall.op = "DigitalWrite" /\ lastCall.result = "ok" /\ lastCall.pin = 7
    /\ lastCall.wrote = <<DigitalMessage, 1, 1>>

\* C18: a step that changes a digital port-state byte is a call of
\* DigitalWrite; the reader's steps (the decoding of a digital message too),
\* the consumer's and every other control operation leave the bytes as they
\* are.
C18_OnlyDigitalWriteChangesPorts ==
    [][digitalPinState' # digitalPinState =>
        (opsDone' = opsDone + 1 /\ lastCall'.op = "DigitalWrite")]_vars

\* The reader has decoded the digital message 90 7F 01 for port 0 (all eight
\* bits set), EnableDigitalInput was called, and port 0 holds the one bit
\* DigitalWrite gave it.
C18_Witness ==
    /\ lastValue.valueType = DigitalMessage /\ lastValue.value = 255
    /\ lastCall.op = "EnableDigitalInput" /\ lastCall.result = "ok"
    /\ digitalPinState[0] = 1

\* ------------------------------------------------------- the value stream

\* C19: the consumer receives a value only from the reader blocked in its
\* send, and then exactly the value the reader holds, after those it has
\* already; the blocked reader leaves its send only by that handoff and until
\* then takes no byte and changes nothing of the client; and the synchronised
\* reader turns the digital or analog frame at the head of the stream into
\* the one value it sends next.
C19_ValuesInStreamOrder ==
    [][/\ received' # received =>
            (readerPc = "send" /\ readerPc' = "read"
                /\ received' = Append(received, pending))
       /\ (readerPc = "send" /\ readerPc' # "send") =>
            received' = Append(received, pending)
       /\ readerPc = "send" =>
            /\ pending' = pending
            /\ Len(inbuf') >= Len(inbuf)
            /\ SubSeq(inbuf', 1, Len(inbuf)) = inbuf
            /\ doneCloses' = doneCloses
            /\ UNCHANGED tableVars
       /\ (readerInit /\ ReaderTakes /\ Len(inbuf) >= 3
                /\ HighNibble(inbuf[1]) \in {DigitalMessage, AnalogMessage}) =>
            /\ readerPc' = "send"
            /\ pending'.valueType = inbuf[1]
            /\ pending'.value = (inbuf[2] % 128) + 128 * (inbuf[3] % 128)
            /\ inbuf' = SubSeq(inbuf, 4, Len(inbuf))]_vars

\* The consumer has received the values of the frames 90 7F 01 and E1 05 02,
\* sent in this order.
C19_Witness ==
    /\ Len(received) = 2
    /\ received[1].valueType = DigitalMessage /\ received[1].value = 255
    /\ received[2].valueType = AnalogMessage + 1 /\ received[2].value = 261

\* --------------------------------------------------------- failed writes

\* C20: a DigitalWrite whose write to the transport fails returns the
\* transport error, has written nothing, and leaves its bit in the port byte;
\* the message of a successful DigitalWrite that follows it on another pin of
\* the same port carries that bit.
C20_FailedWriteKeepsBit ==
    [][/\ (lastCall'.op = "DigitalWrite" /\ opsDone' = opsDone + 1 /\ connClosed
             /\ lastCall'.result \notin {"panic", "validation"}) =>
            lastCall'.result = "transport"
       /\ (lastCall'.op = "DigitalWrite" /\ lastCall'.result = "transport") =>
            /\ lastCall'.wrote = <<>>
            /\ BitOf(digitalPinState'[lastCall'.pin \div 8], lastCall'.pin % 8)
                   = lastCall'.arg
       /\ (lastCall.op = "DigitalWrite" /\ lastCall.result = "transport"
             /\ opsDone' = opsDone + 1
             /\ lastCall'.op = "DigitalWrite" /\ lastCall'.result = "ok"
             /\ lastCall'.pin \div 8 = lastCall.pin \div 8
             /\ lastCall'.pin # lastCall.pin) =>
            BitOf(lastCall'.wrote[2] + 128 * lastCall'.wrote[3], lastCall.pin % 8)
                = lastCall.arg]_vars

\* The write of DigitalWrite(0, true) failed on the open transport: the call
\* returned the transport error and port 0 holds the bit.
C20_Witness ==
    /\ lastCall.op = "DigitalWrite" /\ lastCall.result = "transport"
    /\ lastCall.pin = 0 /\ ~connClosed
    /\ lastCall.portsBefore[0] = 0 /\ digitalPinState[0] = 1
====
